---- MODULE Spec2Model ----
(***************************************************************************)
(* A model of tabla (src/src/tabla/tabla.py): the Table class that turns a *)
(* pandas DataFrame and a list of TableColumn descriptors into a LaTeX     *)
(* table.                                                                  *)
(*                                                                         *)
(* A rendered string is modelled as the sequence of the text pieces the    *)
(* code concatenates (every literal and every formatted value is one       *)
(* piece), so that "contains", "before" and "exactly once" are statements  *)
(* about positions in that sequence.                                       *)
(***************************************************************************)
EXTENDS Integers, Sequences, FiniteSets, TLC

VARIABLES
    args,       \* the arguments the caller passes to Table(...)
    pc,         \* "start": not constructed; "ready": __init__ returned;
                \* "failed": __init__ raised
    table,      \* the attributes __init__ has assigned to self
    err,        \* the exception the last call raised, "none" if it returned
    last,       \* the last call made: "none", "__init__", "dumps", "dump"
    out,        \* what the last dumps() returned
    prevOut,    \* what the dumps() before that returned
    ncalls,     \* number of dumps() calls made
    sink,       \* the text written to the destination of dump()
    handleOpen  \* whether the caller's own file handle is still open

vars == <<args, pc, table, err, last, out, prevOut, ncalls, sink, handleOpen>>

(***************************************************************************)
(* Bounds of the model.                                                    *)
(***************************************************************************)
MaxRows == 2
MaxCols == 2
MaxCalls == 2

(***************************************************************************)
(* Python values: a type tag and a payload.  A float is named by its       *)
(* shortest repr, a pandas Timestamp and a numpy datetime64 by the ISO     *)
(* form with a "T".                                                        *)
(***************************************************************************)
Str(s) == [t |-> "str", s |-> s]
None == [t |-> "None", s |-> ""]
Float(r) == [t |-> "float", s |-> r]
Timestamp(iso) == [t |-> "Timestamp", s |-> iso]
Datetime64(iso) == [t |-> "datetime64", s |-> iso]

Range(seq) == {seq[i] : i \in DOMAIN seq}

\* Python truth value of an Optional[str]: None and "" are false.
Truthy(v) == v.t = "str" /\ v.s # ""

\* Timestamp.isoformat(sep): the date part, the separator, the time part.
DatePart(iso) == CASE iso = "2020-01-01T00:00:00" -> "2020-01-01"
TimePart(iso) == CASE iso = "2020-01-01T00:00:00" -> "00:00:00"
IsoFormat(v, sep) == DatePart(v.s) \o sep \o TimePart(v.s)

\* str(v), which is also what a "{}" replacement field produces.
PyStr(v) ==
    CASE v.t = "str" -> v.s
      [] v.t = "None" -> "None"
      [] v.t = "float" -> v.s
      [] v.t = "Timestamp" -> IsoFormat(v, " ")
      [] v.t = "datetime64" -> v.s \o ".000000000"

\* Whether fmt.format(v) raises ValueError for a float v: the integer
\* presentation type does not accept a float.
PyFormatRaises(fmt, v) == fmt = "{:d}" /\ v.t = "float"

\* fmt.format(v) for a float v.  A template without a replacement field
\* ignores its argument and returns its own text.
PyFormat(fmt, v) ==
    CASE fmt = "%Y-%m-%d" -> fmt
      [] fmt = "{:04.3}" /\ v.s = "1.5" -> "01.5"
      [] fmt = "{:04.3}" /\ v.s = "nan" -> "0nan"

\* Timestamp.strftime(v, format=fmt).  A pattern without a % directive is
\* copied to the result unchanged.
StrFTime(v, fmt) ==
    CASE fmt = "%Y-%m-%d" -> DatePart(v.s)
      [] fmt \in {"{:04.3}", "{:d}"} -> fmt

(***************************************************************************)
(* Table.string_dataframe                                                  *)
(***************************************************************************)
DefaultEmptyStr == "-"

\* One cell of one column, by the dtype of the column.
FormatValue(dtype, fmt, v) ==
    IF dtype = "datetime64[ns]"
    THEN IF Truthy(fmt) THEN Str(StrFTime(v, fmt.s)) ELSE Str(IsoFormat(v, " "))
    ELSE IF dtype = "object"
    THEN Str(PyStr(v))
    ELSE IF Truthy(fmt) THEN Str(PyFormat(fmt.s, v)) ELSE Str(PyStr(v))

\* Whether formatting the column raises: only the numeric branch applies the
\* pattern with str.format, once per value of the series.
ColumnRaises(df, column) ==
    /\ df.dtype[column.name] \notin {"datetime64[ns]", "object"}
    /\ Truthy(column.fmt)
    /\ \E r \in DOMAIN df.rows : PyFormatRaises(column.fmt.s, df.rows[r][column.name])

\* Series.replace(old, new): whole-value match.
Replace(v, old, new) == IF v = Str(old) THEN Str(new) ELSE v

\* df_str[column.name] = <formatted series>, then the replace of "nan",
\* which acts in place on the column of df_str (the pandas releases that
\* still provide pd.np, which the tests use, return the cached column).
FormatColumn(df, df_str, column, empty_str) ==
    [df_str EXCEPT
        !.dtype[column.name] = "object",
        !.rows = [r \in DOMAIN df.rows |->
                    [df_str.rows[r] EXCEPT ![column.name] =
                        Replace(FormatValue(df.dtype[column.name], column.fmt,
                                            df.rows[r][column.name]),
                                "nan", empty_str)]]]

\* A variant of the loop body that passes over a descriptor whose field the
\* dataset lacks instead of failing.
FormatStepSkipMissing(df, acc, column, empty_str) ==
    IF column.name \notin Range(df.fields)
    THEN acc
    ELSE IF ColumnRaises(df, column)
    THEN [acc EXCEPT !.exc = "ValueError"]
    ELSE [acc EXCEPT !.df_str = FormatColumn(df, acc.df_str, column, empty_str)]

\* One iteration of the loop over the descriptors; df[column.name] raises
\* KeyError when the dataset has no such field.
FormatStep(df, acc, column, empty_str) ==
    IF column.name \notin Range(df.fields)
    THEN [acc EXCEPT !.exc = "KeyError"]
    ELSE IF ColumnRaises(df, column)
    THEN [acc EXCEPT !.exc = "ValueError"]
    ELSE [acc EXCEPT !.df_str = FormatColumn(df, acc.df_str, column, empty_str)]

RECURSIVE FormatLoop(_, _, _, _, _)
FormatLoop(df, acc, columns, i, empty_str) ==
    IF i > Len(columns) \/ acc.exc # "none"
    THEN acc
    ELSE FormatLoop(df, FormatStep(df, acc, columns[i], empty_str),
                    columns, i + 1, empty_str)

\* The result: the exception raised ("none" if none) and the string frame.
string_dataframe(df, columns, empty_str) ==
    FormatLoop(df, [exc |-> "none", df_str |-> df], columns, 1, empty_str)

(***************************************************************************)
(* Rendering                                                               *)
(***************************************************************************)
HLINE == "\\hline\n"
EOL == "\\\\ \n"

BeginTable == "\\begin{table}[!ht]\n"
BeginAdjustwidth == "\\begin{adjustwidth}{-2.25in}{0in}\n"
Tiny == "\\tiny\n"
Centering == "\\centering\n"
CaptionOpen == "\\caption{"
CaptionClose == "}\n"
RowHeightOpen == "\\setlength\\extrarowheight{ "
RowHeightClose == " pt}\n"
BeginTabular == "\\begin{tabular}{  "
ColSpec == "c "
BeginTabularClose == " }\n"
EndTabular == "\\end{{tabular}} \n"
NotesOpen == "\\begin{flushleft} "
NotesClose == " \n \\end{flushleft} \n"
LabelOpen == "\\label{"
LabelClose == "}\n"
EndAdjustwidth == "\\end{{adjustwidth}} \n"
EndTable == "\\end{{table}} \n"
BoldOpen == " \\textbf{ "
BoldClose == " } "
PlainOpen == " "
PlainClose == " "
CellSep == "&"
RowJoin == " "

\* "&".join([fmt] * len(elems)).format(*elems), from cell i on.
RECURSIVE JoinCells(_, _, _)
JoinCells(elems, bold, i) ==
    IF i > Len(elems)
    THEN <<>>
    ELSE (IF i > 1 THEN <<CellSep>> ELSE <<>>)
         \o (IF bold
             THEN <<BoldOpen, PyStr(elems[i]), BoldClose>>
             ELSE <<PlainOpen, PyStr(elems[i]), PlainClose>>)
         \o JoinCells(elems, bold, i + 1)

_creat_row(elems, bold) == JoinCells(elems, bold, 1) \o <<RowJoin, EOL>>

\* The caption text is opened and filled; the statement that would close
\* it computes a value and discards it.
Caption(self) ==
    IF Truthy(self.title) \/ Truthy(self.caption)
    THEN <<CaptionOpen>>
         \o (IF Truthy(self.title) THEN <<PyStr(self.title)>> ELSE <<>>)
         \o (IF Truthy(self.caption) THEN <<self.caption.s>> ELSE <<>>)
    ELSE <<>>

_create_header(self) ==
    <<BeginTable>>
    \o (IF self.adjustwidth THEN <<BeginAdjustwidth>> ELSE <<>>)
    \o (IF self.tiny THEN <<Tiny>> ELSE <<>>)
    \o (IF self.centering THEN <<Centering>> ELSE <<>>)
    \o Caption(self)
    \o (IF self.extra_row_height # 0
        THEN <<RowHeightOpen, ToString(self.extra_row_height), RowHeightClose>>
        ELSE <<>>)
    \o <<BeginTabular>> \o [i \in 1..Len(self.columns) |-> ColSpec]
    \o <<BeginTabularClose>>
    \o <<HLINE>>
    \o _creat_row([i \in 1..Len(self.columns) |-> self.columns[i].print_name], TRUE)
    \o (IF self.header_units
        THEN _creat_row([i \in 1..Len(self.columns) |-> self.columns[i].unit], FALSE)
        ELSE <<>>)
    \o <<HLINE>>

\* elems.values of row r: every field of the frame, in the frame's order.
\* iterrows() builds each row from the frame's values array, which holds
\* numpy datetime64 values when every column is a datetime column and the
\* columns' own objects otherwise.
RowValues(df, r) ==
    [j \in 1..Len(df.fields) |->
        LET v == df.rows[r][df.fields[j]]
        IN IF \A f \in Range(df.fields) : df.dtype[f] = "datetime64[ns]"
           THEN Datetime64(v.s)
           ELSE v]

\* A variant of the row loop that stops one record early.
RECURSIVE BodyRowsDropLast(_, _)
BodyRowsDropLast(df, r) ==
    IF r >= Len(df.rows)
    THEN <<>>
    ELSE _creat_row(RowValues(df, r), FALSE) \o BodyRowsDropLast(df, r + 1)

\* [Table._creat_row(elems.values) for _, elems in df_str.iterrows()]
RECURSIVE BodyRows(_, _)
BodyRows(df, r) ==
    IF r > Len(df.rows)
    THEN <<>>
    ELSE _creat_row(RowValues(df, r), FALSE) \o BodyRows(df, r + 1)

_create_body(self) == BodyRows(self.df_str, 1) \o <<"\n">>

_create_footer(self) ==
    <<EndTabular>>
    \o (IF Truthy(self.notes) THEN <<NotesOpen, PyStr(self.notes), NotesClose>> ELSE <<>>)
    \o (IF Truthy(self.label) THEN <<LabelOpen, self.label.s, LabelClose>> ELSE <<>>)
    \o (IF self.adjustwidth THEN <<EndAdjustwidth>> ELSE <<>>)
    \o <<EndTable>>

dumps(self) == _create_header(self) \o _create_body(self) \o _create_footer(self)

(***************************************************************************)
(* The inputs                                                              *)
(***************************************************************************)
TableColumn(name, unit, fmt, print_name) ==
    [name |-> name, unit |-> unit, fmt |-> fmt, print_name |-> print_name]

\* The fields a dataset may have, with the dtype pandas gives each.
Fields == {"date", "temp", "site"}
DType(f) ==
    CASE f = "date" -> "datetime64[ns]"
      [] f = "temp" -> "float64"
      [] f = "site" -> "object"
Values(f) ==
    CASE f = "date" -> {Timestamp("2020-01-01T00:00:00")}
      [] f = "temp" -> {Float("1.5"), Float("nan")}
      [] f = "site" -> {Str("abc")}
PrintName(f) ==
    CASE f = "date" -> Str("Date")
      [] f = "temp" -> Str("Temperature")
      [] f = "site" -> Str("Site")

SeqsUpTo(S, n) == UNION {[1..k -> S] : k \in 0..n}

DataFrame(fields, rows) ==
    [fields |-> fields, dtype |-> [f \in Range(fields) |-> DType(f)], rows |-> rows]

\* The records a dataset with these fields may hold, and the datasets of at
\* most n such records.
Records(fields) ==
    {row \in [Range(fields) -> UNION {Values(f) : f \in Fields}] :
        \A f \in Range(fields) : row[f] \in Values(f)}
RowsOver(fields, n) == SeqsUpTo(Records(fields), n)

DefaultOpts ==
    [extra_row_height |-> 0, dpi |-> 300, empty_str |-> "-", title |-> None,
     caption |-> None, label |-> None, notes |-> None, header_units |-> TRUE,
     centering |-> TRUE, tiny |-> FALSE, adjustwidth |-> FALSE]

Args(columns, df, opts) ==
    [name |-> "test_name", columns |-> columns, df |-> df, opts |-> opts]

\* Datasets of one or two fields in either order and of no or one record,
\* descriptors naming any field (present or not) with any pattern, default
\* options.
FieldOrders == {s \in SeqsUpTo(Fields, 2) :
                    Len(s) >= 1 /\ \A i, j \in DOMAIN s : i # j => s[i] # s[j]}
Fmts == {None, Str("%Y-%m-%d"), Str("{:04.3}"), Str("{:d}")}
DataColumns ==
    SeqsUpTo({TableColumn(f, Str(""), fmt, PrintName(f)) : f \in Fields, fmt \in Fmts},
             MaxCols)
DataArgs(a) ==
    \E columns \in DataColumns, fields \in FieldOrders :
        \E rows \in RowsOver(fields, 1) :
            a = Args(columns, DataFrame(fields, rows), DefaultOpts)

\* Datasets of one or two fields in either order and of several records,
\* with no descriptor or with one descriptor per field, default options.
AllDescribed(fields) ==
    [i \in DOMAIN fields |-> TableColumn(fields[i], Str(""), None, PrintName(fields[i]))]
RowArgs(a) ==
    \E fields \in FieldOrders :
        \E rows \in RowsOver(fields, MaxRows), columns \in {<<>>, AllDescribed(fields)} :
            a = Args(columns, DataFrame(fields, rows), DefaultOpts)

\* One float field, descriptors with every kind of unit (a text, the empty
\* string, None), with and without the unit row.
UnitColumns ==
    SeqsUpTo({TableColumn("temp", unit, None, PrintName("temp")) :
                unit \in {Str("(degrees)"), Str(""), None}}, MaxCols)
UnitArgs(a) ==
    \E columns \in UnitColumns, rows \in RowsOver(<<"temp">>, MaxRows),
       hu \in BOOLEAN :
        a = Args(columns, DataFrame(<<"temp">>, rows),
                 [DefaultOpts EXCEPT !.header_units = hu])

\* One float field holding one missing value, its descriptor, and every
\* combination of the presentation options.
OptStr(s) == {None, Str(s)}
Opts ==
    {[extra_row_height |-> erh, dpi |-> 300, empty_str |-> es, title |-> ti,
      caption |-> ca, label |-> la, notes |-> no, header_units |-> hu,
      centering |-> ce, tiny |-> tn, adjustwidth |-> aw] :
        erh \in {0, 2}, es \in {"-", "--"}, ti \in OptStr("Title"),
        ca \in OptStr("Caption"), la \in OptStr("tab:test"),
        no \in OptStr("Notes"), hu \in BOOLEAN, ce \in BOOLEAN,
        tn \in BOOLEAN, aw \in BOOLEAN}
LayoutArgs(a) ==
    \E opts \in Opts :
        a = Args(<<TableColumn("temp", Str("(degrees)"), None, PrintName("temp"))>>,
                 DataFrame(<<"temp">>, <<[temp |-> Float("nan")]>>), opts)

(***************************************************************************)
(* The state machine                                                       *)
(***************************************************************************)
Init ==
    /\ DataArgs(args) \/ RowArgs(args) \/ UnitArgs(args) \/ LayoutArgs(args)
    /\ pc = "start"
    /\ table = <<>>
    /\ err = "none"
    /\ last = "none"
    /\ out = <<>>
    /\ prevOut = <<>>
    /\ ncalls = 0
    /\ sink = <<>>
    /\ handleOpen = TRUE

\* Table.__init__: the attributes are assigned in the order of the code, so
\* a failure of string_dataframe leaves only the first four.
Construct ==
    /\ pc = "start"
    /\ LET o == args.opts
           r == string_dataframe(args.df, args.columns, DefaultEmptyStr)
           first == [name |-> args.name, columns |-> args.columns,
                     header_units |-> o.header_units, df |-> args.df]
       IN IF r.exc = "none"
          THEN /\ table' = [name |-> args.name, columns |-> args.columns,
                            header_units |-> o.header_units, df |-> args.df,
                            df_str |-> r.df_str, adjustwidth |-> o.adjustwidth,
                            title |-> o.title, caption |-> o.caption,
                            extra_row_height |-> o.extra_row_height,
                            label |-> o.label, notes |-> o.notes, dpi |-> o.dpi,
                            empty_str |-> o.empty_str, centering |-> o.centering,
                            tiny |-> o.tiny]
               /\ pc' = "ready"
               /\ err' = "none"
          ELSE /\ table' = first
               /\ pc' = "failed"
               /\ err' = r.exc
    /\ last' = "__init__"
    /\ UNCHANGED <<args, out, prevOut, ncalls, sink, handleOpen>>

\* A variant of dumps() that consumes the formatted rows as it renders them.
DumpsConsuming ==
    /\ pc = "ready"
    /\ ncalls < MaxCalls
    /\ out' = dumps(table)
    /\ prevOut' = out
    /\ ncalls' = ncalls + 1
    /\ table' = [table EXCEPT !.df_str.rows = <<>>]
    /\ err' = "none"
    /\ last' = "dumps"
    /\ UNCHANGED <<args, pc, sink, handleOpen>>

\* Table.dumps
Dumps ==
    /\ pc = "ready"
    /\ ncalls < MaxCalls
    /\ out' = dumps(table)
    /\ prevOut' = out
    /\ ncalls' = ncalls + 1
    /\ err' = "none"
    /\ last' = "dumps"
    /\ UNCHANGED <<args, pc, table, sink, handleOpen>>

\* The destinations a caller may pass to dump().
FileObjs ==
    {[kind |-> "path", exists |-> TRUE], [kind |-> "path", exists |-> FALSE],
     [kind |-> "handle", exists |-> TRUE]}

\* Table.dump with Table._dump.  A path is opened with mode "r": a missing
\* file raises FileNotFoundError; an existing one is opened, _dump passes
\* the bound method self.dumps (not its result) to fh.write, which raises
\* TypeError, and the with block closes the file.  A handle goes to
\* Table._dump(fileobj), a call that lacks the fh argument and raises
\* TypeError before the handle is used.  No branch writes anything.
Dump(fileobj) ==
    /\ pc = "ready"
    /\ IF fileobj.kind = "path" /\ ~fileobj.exists
       THEN err' = "FileNotFoundError"
       ELSE err' = "TypeError"
    /\ last' = "dump"
    /\ UNCHANGED <<args, pc, table, out, prevOut, ncalls, sink, handleOpen>>

Next ==
    \/ Construct
    \/ Dumps
    \/ \E fileobj \in FileObjs : Dump(fileobj)

Spec == Init /\ [][Next]_vars

(***************************************************************************)
(* Reading a rendered text back                                            *)
(***************************************************************************)
Positions(o, x) == {i \in DOMAIN o : o[i] = x}
Count(o, x) == Cardinality(Positions(o, x))
Kth(S, k) == CHOOSE x \in S : Cardinality({y \in S : y < x}) = k - 1
Pos(o, x) == Kth(Positions(o, x), 1)

\* The rows that lie strictly between positions lo and hi, each without
\* its row terminator.
RowsBetween(o, lo, hi) ==
    LET E == {i \in (lo + 1)..(hi - 1) : o[i] = EOL}
    IN [k \in 1..Cardinality(E) |->
            SubSeq(o, (IF k = 1 THEN lo ELSE Kth(E, k - 1)) + 1, Kth(E, k) - 1)]

\* The cells of a row: each cell is wrapped by two pieces and followed by
\* a separator or by the piece that precedes the terminator.
CellsOf(row) == [i \in 1..(Len(row) \div 4) |-> row[4 * i - 2]]

HeaderRowsOf(o) ==
    RowsBetween(o, Kth(Positions(o, HLINE), 1), Kth(Positions(o, HLINE), 2))
BodyRowsOf(o) ==
    RowsBetween(o, Kth(Positions(o, HLINE), 2), Pos(o, EndTabular))

Rendered == pc = "ready" /\ ncalls > 0
DescribedFields == {args.columns[i].name : i \in DOMAIN args.columns}
FieldIndex(f) == CHOOSE j \in DOMAIN args.df.fields : args.df.fields[j] = f

(***************************************************************************)
(* C1.  dumps() emits the header once, then one row per record of the      *)
(* input dataset in the dataset's order, then the footer once: the         *)
(* opening of the table is the first piece and occurs once, the column     *)
(* spec, the two rules, the end of the tabular and the end of the table    *)
(* follow in that order and occur once each (the rule twice), every row    *)
(* lies between the first rule and the end of the tabular, and the k-th    *)
(* row after the second rule holds the values of the k-th record.          *)
(***************************************************************************)
StagesInOrder ==
    Rendered =>
        LET o == out
            n == Len(args.df.rows)
            rules == Positions(o, HLINE)
            rows == Positions(o, EOL)
        IN /\ o[1] = BeginTable /\ Count(o, BeginTable) = 1
           /\ Count(o, BeginTabular) = 1
           /\ Cardinality(rules) = 2
           /\ Count(o, EndTabular) = 1
           /\ o[Len(o)] = EndTable /\ Count(o, EndTable) = 1
           /\ LET rule1 == Kth(rules, 1)
                  rule2 == Kth(rules, 2)
                  endTabular == Pos(o, EndTabular)
                  body == RowsBetween(o, rule2, endTabular)
              IN /\ Pos(o, BeginTabular) < rule1
                 /\ rule2 < endTabular
                 /\ \A i \in rows : rule1 < i /\ i < endTabular
                 /\ Cardinality(rows) = Len(RowsBetween(o, rule1, rule2)) + n
                 /\ Len(body) = n
                 /\ o[endTabular - 1] = "\n"
                 /\ \A r \in 1..n :
                      LET cells == CellsOf(body[r])
                      IN /\ Len(cells) = Len(args.df.fields)
                         /\ \A j \in DOMAIN args.df.fields :
                              LET f == args.df.fields[j]
                              IN IF f \in DescribedFields
                                 THEN cells[j] = table.df_str.rows[r][f].s
                                 ELSE cells[j] = PyStr(RowValues(args.df, r)[j])

\* Two different records were rendered, as two rows.
StagesInOrderWitness ==
    /\ Rendered
    /\ Len(args.df.rows) = 2
    /\ args.df.rows[1] # args.df.rows[2]
    /\ Len(BodyRowsOf(out)) = 2
    /\ CellsOf(BodyRowsOf(out)[1]) # CellsOf(BodyRowsOf(out)[2])

ContainsNan(text) == text \in {"nan", "0nan"}

(***************************************************************************)
(* C2.  Every missing value (NaN) of a numeric column that a descriptor    *)
(* names is rendered as the placeholder the Table was constructed with,    *)
(* and never as a text that contains "nan".                                *)
(***************************************************************************)
NanRendersAsPlaceholder ==
    Rendered =>
        \A i \in DOMAIN args.columns : \A r \in DOMAIN args.df.rows :
            LET f == args.columns[i].name
            IN (args.df.dtype[f] = "float64" /\ args.df.rows[r][f] = Float("nan")) =>
                LET cell == CellsOf(BodyRowsOf(out)[r])[FieldIndex(f)]
                IN cell = args.opts.empty_str /\ ~ContainsNan(cell)

(***************************************************************************)
(* C3.  Every body row has len(columns) cells, and its i-th cell is the    *)
(* formatted value of the field that the i-th descriptor names.            *)
(***************************************************************************)
BodyCellsFollowDescriptors ==
    Rendered =>
        \A r \in DOMAIN args.df.rows :
            LET cells == CellsOf(BodyRowsOf(out)[r])
            IN /\ Len(cells) = Len(args.columns)
               /\ \A i \in DOMAIN args.columns :
                    cells[i] = PyStr(table.df_str.rows[r][args.columns[i].name])

SomeFieldMissing == \E i \in DOMAIN args.columns :
                        args.columns[i].name \notin Range(args.df.fields)

FirstMissing == Kth({i \in DOMAIN args.columns :
                        args.columns[i].name \notin Range(args.df.fields)}, 1)
RaisedEarlier == \E j \in 1..(FirstMissing - 1) : ColumnRaises(args.df, args.columns[j])

FailsBeforeOutputWith(exc) ==
    (pc # "start" /\ SomeFieldMissing) =>
        /\ pc = "failed"
        /\ err = (IF RaisedEarlier THEN "ValueError" ELSE exc)
        /\ "df_str" \notin DOMAIN table
        /\ ncalls = 0 /\ out = <<>> /\ sink = <<>>

IsDatePattern(fmt) == fmt = Str("%Y-%m-%d")
IsNumericTemplate(fmt) == fmt \in {Str("{:04.3}"), Str("{:d}")}
Incompatible(column, dtype) ==
    \/ IsDatePattern(column.fmt) /\ dtype # "datetime64[ns]"
    \/ IsNumericTemplate(column.fmt) /\ dtype # "float64"
    \/ column.fmt = Str("{:d}") /\ dtype = "float64"

(***************************************************************************)
(* C5.  A pattern that does not fit the type of its column (a date pattern *)
(* on a column that holds no timestamps, a numeric template on a textual   *)
(* or timestamp column, an integer template on a float column) makes the   *)
(* formatting fail with a FormatError.                                     *)
(***************************************************************************)
IncompatiblePatternRaisesFormatError ==
    (/\ pc # "start"
     /\ ~SomeFieldMissing
     /\ Len(args.df.rows) > 0
     /\ \E i \in DOMAIN args.columns :
            Incompatible(args.columns[i], args.df.dtype[args.columns[i].name]))
    => (pc = "failed" /\ err = "FormatError")

ClosesAdjustwidth(piece) ==
    piece \in {"\\end{adjustwidth}", "\\end{adjustwidth}\n", "\\end{adjustwidth} \n"}

(***************************************************************************)
(* C6.  With tiny, centering and adjustwidth all set, the header holds the *)
(* size marker, the centering marker and the opening of the width          *)
(* adjustment once each, in that order, and the footer holds the matching  *)
(* close of the width adjustment before the final close of the table.      *)
(***************************************************************************)
FlagMarkersInClaimedOrder ==
    (Rendered /\ table.tiny /\ table.centering /\ table.adjustwidth) =>
        LET o == out
        IN /\ Count(o, Tiny) = 1 /\ Count(o, Centering) = 1
           /\ Count(o, BeginAdjustwidth) = 1
           /\ Pos(o, Tiny) < Pos(o, Centering)
           /\ Pos(o, Centering) < Pos(o, BeginAdjustwidth)
           /\ \E i \in DOMAIN o :
                /\ ClosesAdjustwidth(o[i])
                /\ Pos(o, EndTabular) < i
                /\ i < Len(o)

UnitText(unit) == IF unit = None THEN "" ELSE unit.s

(***************************************************************************)
(* C7.  The header holds a unit row exactly if header_units is set; the    *)
(* unit row follows the row of display names and precedes the second rule, *)
(* has len(columns) cells, its i-th cell is the unit of the i-th           *)
(* descriptor, and an unset unit (None) gives an empty cell.               *)
(***************************************************************************)
UnitRowPerDescriptor ==
    Rendered =>
        LET rows == HeaderRowsOf(out)
        IN /\ Len(rows) = (IF table.header_units THEN 2 ELSE 1)
           /\ table.header_units =>
                /\ Len(CellsOf(rows[2])) = Len(args.columns)
                /\ \A i \in DOMAIN args.columns :
                        CellsOf(rows[2])[i] = UnitText(args.columns[i].unit)

(***************************************************************************)
(* C8.  dump(destination) writes to the destination exactly the string     *)
(* that dumps() returns, for a path and for an open handle, and leaves an  *)
(* open handle open.                                                       *)
(***************************************************************************)
DumpWritesRenderedString ==
    last = "dump" => (err = "none" /\ sink = dumps(table) /\ handleOpen)

(***************************************************************************)
(* C9.  Every dumps() call leaves the Table as it was, returns a text that *)
(* is not empty, and returns the text the call before it returned.         *)
(***************************************************************************)
DumpsRepeatable ==
    [][last' = "dumps" =>
        /\ table' = table
        /\ out' # <<>>
        /\ ncalls >= 1 => out' = out]_vars

\* dumps() was called twice on a Table with records.
DumpsRepeatableWitness ==
    /\ pc = "ready"
    /\ ncalls >= 2
    /\ last = "dumps"
    /\ Len(table.df_str.rows) > 0
    /\ out = prevOut
    /\ out # <<>>

(***************************************************************************)
(* C10.  The header holds a caption exactly if title or caption is set,    *)
(* and then it is one complete command: the opening, the title, the        *)
(* caption, the close, before the next element of the header.              *)
(***************************************************************************)
CaptionCommandComplete ==
    Rendered =>
        LET o == out
            segs == (IF Truthy(table.title) THEN <<table.title.s>> ELSE <<>>)
                    \o (IF Truthy(table.caption) THEN <<table.caption.s>> ELSE <<>>)
        IN IF segs = <<>>
           THEN Count(o, CaptionOpen) = 0
           ELSE /\ Count(o, CaptionOpen) = 1
                /\ SubSeq(o, Pos(o, CaptionOpen) + 1, Pos(o, CaptionOpen) + Len(segs)) = segs
                /\ o[Pos(o, CaptionOpen) + Len(segs) + 1] = CaptionClose
====
